---------------------------- MODULE Spec2Model ----------------------------
(***************************************************************************)
(* A model of src/src/app/open_fiscal/aggregator.py: BaseAggregator,       *)
(* BudgetDataFormatter and BudgetAnalysisService.                          *)
(*                                                                         *)
(* A DataFrame is a record [rows, cols, levels, cells]: rows and cols are  *)
(* the sequences of row and column labels (each label a tuple of integers, *)
(* a one-level label has length 1, a MultiIndex label of two levels has    *)
(* length 2), levels is the number of levels of the columns and            *)
(* cells[i][j] is the cell of row i and column j.                          *)
(*                                                                         *)
(* A cell is a record [k, n, d]: k = "num" is the rational n/d (d > 0, in  *)
(* lowest terms), "nan" is the float not-a-number, "NA" is pandas' pd.NA   *)
(* (an object that is neither int nor float) and "inf" is a float infinity *)
(* of sign n.  Floating point is modelled by exact rationals.              *)
(*                                                                         *)
(* A Python str is a sequence of one-character strings.                    *)
(***************************************************************************)
EXTENDS Integers, Sequences, FiniteSets

(***************************************************************************)
(* Bounds of the model.                                                    *)
(***************************************************************************)
\* Records in the dataset the aggregator is constructed with.
MaxRecords == 3
\* Rows of a DataFrame handed directly to the static methods.
MaxRows == 3
\* Cells (rows times columns) of such a DataFrame.
MaxCells == 6

\* Ministry identifiers (OFFC_NM), in the order pandas sorts them.
Ministries == {1, 2}
\* Values of the second column key (FLD_NM) of a two-level pivot.
Groups == {1, 2}
\* Fiscal years of the service's dataset: BudgetAnalysisService(2024, 2025).
StartYear == 2024
EndYear == 2025
Years == StartYear..EndYear
\* Amounts of a record (Y_YY_MEDI_KCUR_AMT).
Amounts == {0, 1, 2}

(***************************************************************************)
(* Cells and float arithmetic.                                             *)
(***************************************************************************)
Abs(n) == IF n < 0 THEN -n ELSE n

RECURSIVE GCD(_, _)
GCD(a, b) == IF b = 0 THEN a ELSE GCD(b, a % b)

NaN == [k |-> "nan", n |-> 0, d |-> 1]
NA == [k |-> "NA", n |-> 0, d |-> 1]
Inf(s) == [k |-> "inf", n |-> s, d |-> 1]

\* The rational n/d with d # 0, normalised.
Num(n, d) ==
    LET g == GCD(Abs(n), Abs(d))
        s == IF d < 0 THEN -1 ELSE 1
    IN  [k |-> "num", n |-> (s * n) \div g, d |-> (s * d) \div g]

IsNum(x) == x.k = "num"
IsZero(x) == x.k = "num" /\ x.n = 0
\* pandas.isna
IsNA(x) == x.k \in {"nan", "NA"}

\* float - float
Sub(a, b) ==
    IF IsNum(a) /\ IsNum(b) THEN Num(a.n * b.d - b.n * a.d, a.d * b.d)
    ELSE NaN

\* The element-wise true division of two frames' cells.  pd.NA absorbs;
\* nan propagates; a float divided by a float zero is an infinity (0/0 is
\* nan), as numpy divides, without raising.
Div(a, b) ==
    IF a.k = "NA" \/ b.k = "NA" THEN NA
    ELSE IF a.k = "nan" \/ b.k = "nan" THEN NaN
    ELSE IF a.k = "inf" \/ b.k = "inf" THEN NaN
    ELSE IF b.n = 0 THEN (IF a.n = 0 THEN NaN ELSE Inf(IF a.n > 0 THEN 1 ELSE -1))
    ELSE Num(a.n * b.d, a.d * b.n)

\* cell * c for an integer c > 0
Mul(a, c) ==
    IF IsNum(a) THEN Num(a.n * c, a.d) ELSE a

\* a < b on floats (False when either is nan)
Less(a, b) ==
    /\ a.k \in {"num", "inf"}
    /\ b.k \in {"num", "inf"}
    /\ IF a.k = "inf" THEN a.n < 0 /\ ~(b.k = "inf" /\ b.n < 0)
       ELSE IF b.k = "inf" THEN b.n > 0
       ELSE a.n * b.d < b.n * a.d

Zero == Num(0, 1)

(***************************************************************************)
(* str: sequences of characters.                                           *)
(***************************************************************************)
DigitChar(i) ==
    <<"0", "1", "2", "3", "4", "5", "6", "7", "8", "9">>[i + 1]

\* str(n) for an integer n >= 0
RECURSIVE Digits(_)
Digits(n) ==
    IF n < 10 THEN <<DigitChar(n)>>
    ELSE Digits(n \div 10) \o <<DigitChar(n % 10)>>

\* n/d (n >= 0, d > 0) in hundredths, rounded to nearest, a tie to even
RoundHundredths(n, d) ==
    LET q == (n * 100) \div d
        r == (n * 100) % d
    IN  IF 2 * r > d \/ (2 * r = d /\ q % 2 = 1) THEN q + 1 ELSE q

\* f"{x:.2f}"
Fixed2(x) ==
    IF x.k = "nan" THEN <<"n", "a", "n">>
    ELSE IF x.k = "inf" THEN (IF x.n < 0 THEN <<"-">> ELSE <<>>) \o <<"i", "n", "f">>
    ELSE LET h == RoundHundredths(Abs(x.n), x.d)
         IN  (IF x.n < 0 THEN <<"-">> ELSE <<>>)
             \o Digits(h \div 100)
             \o <<".", DigitChar((h \div 10) % 10), DigitChar(h % 10)>>

\* isinstance(x, (int, float))
IsIntOrFloat(x) == x.k \in {"num", "nan", "inf"}

NaNStr == <<"N", "a", "N">>

\* A faulty variant of format_percentage that takes zero for a positive
\* number (x >= 0); C4 rejects it.
format_percentage_zero_signed(x) ==
    IF IsIntOrFloat(x)
    THEN IF Less(Zero, x) \/ IsZero(x) THEN <<"+">> \o Fixed2(x) \o <<"%">>
         ELSE IF Less(x, Zero) THEN Fixed2(x) \o <<"%">>
         ELSE NaNStr
    ELSE NaNStr

\* BudgetDataFormatter.format_percentage
format_percentage(x) ==
    IF IsIntOrFloat(x)
    THEN IF Less(Zero, x) THEN <<"+">> \o Fixed2(x) \o <<"%">>
         ELSE IF Less(x, Zero) THEN Fixed2(x) \o <<"%">>
         ELSE NaNStr
    ELSE NaNStr

(***************************************************************************)
(* DataFrames.                                                             *)
(***************************************************************************)
Frame(rows, cols, levels, cells) ==
    [rows |-> rows, cols |-> cols, levels |-> levels, cells |-> cells]

\* No frame (None)
NoFrame == Frame(<<>>, <<>>, 0, <<>>)

NRows(df) == Len(df.rows)
NCols(df) == Len(df.cols)

\* A faulty variant of DiffAxis1 that subtracts the first column, not the
\* one before; C2 rejects it.
DiffFromFirstColumn(df) ==
    Frame(df.rows, df.cols, df.levels,
          [i \in 1..NRows(df) |-> [j \in 1..NCols(df) |->
              IF j = 1 THEN NaN ELSE Sub(df.cells[i][j], df.cells[i][1])]])

\* df.diff(axis=1)
DiffAxis1(df) ==
    Frame(df.rows, df.cols, df.levels,
          [i \in 1..NRows(df) |-> [j \in 1..NCols(df) |->
              IF j = 1 THEN NaN ELSE Sub(df.cells[i][j], df.cells[i][j - 1])]])

\* df.shift(axis=1)
ShiftAxis1(df) ==
    Frame(df.rows, df.cols, df.levels,
          [i \in 1..NRows(df) |-> [j \in 1..NCols(df) |->
              IF j = 1 THEN NaN ELSE df.cells[i][j - 1]]])

\* A faulty variant of ReplaceZeroNA that replaces nothing; C1 rejects it.
ReplaceNothing(df) == df

\* df.replace(0, pd.NA).  A float column cannot hold pd.NA, so pandas makes
\* the column an object column and the replaced cells are pd.NA itself, which
\* format_percentage meets as a value that is neither int nor float.
ReplaceZeroNA(df) ==
    Frame(df.rows, df.cols, df.levels,
          [i \in 1..NRows(df) |-> [j \in 1..NCols(df) |->
              IF IsZero(df.cells[i][j]) THEN NA ELSE df.cells[i][j]]])

\* a / b, frames of one shape
DivFrames(a, b) ==
    Frame(a.rows, a.cols, a.levels,
          [i \in 1..NRows(a) |-> [j \in 1..NCols(a) |->
              Div(a.cells[i][j], b.cells[i][j])]])

\* df * c
MulFrame(df, c) ==
    Frame(df.rows, df.cols, df.levels,
          [i \in 1..NRows(df) |-> [j \in 1..NCols(df) |->
              Mul(df.cells[i][j], c)]])

\* A faulty variant of calculate_yoy_change that fills the cells without a
\* value with 0 (.fillna(0)); C3 rejects it.
calculate_yoy_change_fillna(df) ==
    LET r == MulFrame(DivFrames(DiffAxis1(df), ReplaceZeroNA(ShiftAxis1(df))), 100)
    IN  Frame(r.rows, r.cols, r.levels,
              [i \in 1..NRows(r) |-> [j \in 1..NCols(r) |->
                  IF IsNA(r.cells[i][j]) THEN Zero ELSE r.cells[i][j]]])

\* BudgetDataFormatter.calculate_yoy_change
calculate_yoy_change(df) ==
    MulFrame(DivFrames(DiffAxis1(df), ReplaceZeroNA(ShiftAxis1(df))), 100)

\* df.map(format_percentage)
MapFormat(df) ==
    Frame(df.rows, df.cols, df.levels,
          [i \in 1..NRows(df) |-> [j \in 1..NCols(df) |->
              format_percentage(df.cells[i][j])]])

(***************************************************************************)
(* The dataset and pivot_table.                                            *)
(***************************************************************************)
\* The fields of the dataset (FiscalDataManager.data)
Schema == {"OFFC_NM", "FLD_NM", "FSCL_YY", "Y_YY_MEDI_KCUR_AMT"}

\* The tuple of a record's values of the fields named in keys
KeyOf(r, keys) == [i \in 1..Len(keys) |-> r[keys[i]]]

\* a < b, tuples of integers of one length, in lexicographic order
RECURSIVE LexLess(_, _)
LexLess(a, b) ==
    IF a = <<>> THEN FALSE
    ELSE IF Head(a) # Head(b) THEN Head(a) < Head(b)
    ELSE LexLess(Tail(a), Tail(b))

\* The elements of a set of labels in ascending order
RECURSIVE SortLabels(_)
SortLabels(S) ==
    IF S = {} THEN <<>>
    ELSE LET m == CHOOSE x \in S : \A y \in S \ {x} : LexLess(x, y)
         IN  <<m>> \o SortLabels(S \ {m})

\* aggfunc="sum" over the records of one group
RECURSIVE GroupSum(_, _, _, _, _, _)
GroupSum(data, index, columns, values, rk, ck) ==
    IF data = <<>> THEN 0
    ELSE LET r == Head(data)
             rest == GroupSum(Tail(data), index, columns, values, rk, ck)
         IN  IF KeyOf(r, index) = rk /\ KeyOf(r, columns) = ck
             THEN r[values] + rest ELSE rest

\* The (row key, column key) pairs that have a record
GroupKeys(data, index, columns) ==
    {<<KeyOf(data[i], index), KeyOf(data[i], columns)>> : i \in 1..Len(data)}

\* df.dropna(how="all", axis=1)
DropAllNaColumns(df) ==
    LET keep == SelectSeq([j \in 1..NCols(df) |-> j],
                          LAMBDA j : \E i \in 1..NRows(df) : ~IsNA(df.cells[i][j]))
    IN  Frame(df.rows, [j \in 1..Len(keep) |-> df.cols[keep[j]]], df.levels,
              [i \in 1..NRows(df) |-> [j \in 1..Len(keep) |-> df.cells[i][keep[j]]]])

KeyError(key) == [type |-> "KeyError", key |-> key]
NoException == [type |-> "none", key |-> <<>>]

\* The first field pivot_table looks up and does not find: values, then the
\* group keys in the order index + columns
MissingFields(index, columns, values) ==
    SelectSeq(<<values>> \o index \o columns, LAMBDA f : f \notin Schema)

\* A faulty variant of PivotFrame that fills the cells without a record with
\* 0 (fill_value=0); C8 rejects it.
PivotFrameFillZero(data, index, columns, values) ==
    LET groups == GroupKeys(data, index, columns)
        rows == SortLabels({g[1] : g \in groups})
        cols == SortLabels({g[2] : g \in groups})
    IN  Frame(rows, cols, Len(columns),
              [i \in 1..Len(rows) |-> [j \in 1..Len(cols) |->
                  IF <<rows[i], cols[j]>> \in groups
                  THEN Num(GroupSum(data, index, columns, values, rows[i], cols[j]), 1)
                  ELSE Zero]])

\* data.pivot_table(index, columns, values, aggfunc="sum"): the table of a
\* dataset that has every named field
PivotFrame(data, index, columns, values) ==
    LET groups == GroupKeys(data, index, columns)
        rows == SortLabels({g[1] : g \in groups})
        cols == SortLabels({g[2] : g \in groups})
    IN  DropAllNaColumns(
          Frame(rows, cols, Len(columns),
                [i \in 1..Len(rows) |-> [j \in 1..Len(cols) |->
                    IF <<rows[i], cols[j]>> \in groups
                    THEN Num(GroupSum(data, index, columns, values, rows[i], cols[j]), 1)
                    ELSE NaN]]))

\* A faulty variant of aggregate that answers a missing field with an empty
\* table; C9 rejects it.
aggregate_empty_on_missing(data, index, columns, values) ==
    IF MissingFields(index, columns, values) # <<>>
    THEN [exc |-> NoException, df |-> Frame(<<>>, <<>>, Len(columns), <<>>)]
    ELSE [exc |-> NoException, df |-> PivotFrame(data, index, columns, values)]

\* BaseAggregator.aggregate: [exc, df]
aggregate(data, index, columns, values) ==
    LET missing == MissingFields(index, columns, values)
    IN  IF missing # <<>>
        THEN [exc |-> KeyError(<<Head(missing)>>), df |-> NoFrame]
        ELSE [exc |-> NoException, df |-> PivotFrame(data, index, columns, values)]

(***************************************************************************)
(* sort_values and sort_yearly_budgets.                                    *)
(***************************************************************************)
Reverse(s) == [i \in 1..Len(s) |-> s[Len(s) + 1 - i]]

\* The permutations of 1..n, as sequences
Perms(n) == {p \in [1..n -> 1..n] : \A i, j \in 1..n : p[i] = p[j] => i = j}

\* numpy's argsort(kind="quicksort") of a sequence of floats without nan:
\* every index order that puts the values in non-decreasing order.  The
\* algorithm is not stable: which of two equal values comes first depends on
\* the build (SIMD dispatch) and on the length of the array.
ArgsortOutcomes(vals) ==
    {p \in Perms(Len(vals)) :
        \A i, j \in 1..Len(vals) : i < j => ~Less(vals[p[j]], vals[p[i]])}

\* A faulty variant of NargsortOutcomes whose descending order is the
\* ascending one reversed, the undefined values first; C6 rejects it.
NargsortReversedOutcomes(items, ascending) ==
    LET idx == [i \in 1..Len(items) |-> i]
        non_nan_idx == SelectSeq(idx, LAMBDA i : ~IsNA(items[i]))
        nan_idx == SelectSeq(idx, LAMBDA i : IsNA(items[i]))
        non_nans == [i \in 1..Len(non_nan_idx) |-> items[non_nan_idx[i]]]
    IN  {LET indexer == [i \in 1..Len(non_nan_idx) |-> non_nan_idx[p[i]]] \o nan_idx
         IN  IF ascending THEN indexer ELSE Reverse(indexer)
         : p \in ArgsortOutcomes(non_nans)}

\* pandas.core.sorting.nargsort(items, kind="quicksort", ascending,
\* na_position="last"): the index orders it can return
NargsortOutcomes(items, ascending) ==
    LET idx == [i \in 1..Len(items) |-> i]
        non_nan_idx == SelectSeq(idx, LAMBDA i : ~IsNA(items[i]))
        nan_idx == SelectSeq(idx, LAMBDA i : IsNA(items[i]))
        src == IF ascending THEN non_nan_idx ELSE Reverse(non_nan_idx)
        non_nans == [i \in 1..Len(src) |-> items[src[i]]]
    IN  {LET indexer == [i \in 1..Len(src) |-> src[p[i]]]
         IN  (IF ascending THEN indexer ELSE Reverse(indexer)) \o nan_idx
         : p \in ArgsortOutcomes(non_nans)}

\* df.take(indexer): the rows of df in the order of indexer
TakeRows(df, indexer) ==
    Frame([i \in 1..Len(indexer) |-> df.rows[indexer[i]]], df.cols, df.levels,
          [i \in 1..Len(indexer) |-> df.cells[indexer[i]]])

\* The positions of the columns of df labelled by
Locate(df, by) == {j \in 1..NCols(df) : df.cols[j] = by}

\* A faulty variant of SortValuesOutcomes that leaves out the rows without a
\* value (dropna before the sort); C10 rejects it.
SortValuesDropNaOutcomes(df, by, ascending) ==
    LET j == CHOOSE c \in Locate(df, by) : TRUE
        items == [i \in 1..NRows(df) |-> df.cells[i][j]]
    IN  {TakeRows(df, SelectSeq(indexer, LAMBDA i : ~IsNA(items[i]))) :
            indexer \in NargsortOutcomes(items, ascending)}

\* df.sort_values(by=by, ascending=ascending), by the label of one column of
\* df: the frames it can return
SortValuesOutcomes(df, by, ascending) ==
    LET j == CHOOSE c \in Locate(df, by) : TRUE
    IN  {TakeRows(df, indexer) :
            indexer \in NargsortOutcomes([i \in 1..NRows(df) |-> df.cells[i][j]],
                                         ascending)}

\* The columns of df at the positions of keep, in that order
SelectColumns(df, keep) ==
    Frame(df.rows, [j \in 1..Len(keep) |-> df.cols[keep[j]]], df.levels,
          [i \in 1..NRows(df) |-> [j \in 1..Len(keep) |-> df.cells[i][keep[j]]]])

\* s without the elements that occur earlier in it (Index.unique)
RECURSIVE Unique(_)
Unique(s) ==
    IF s = <<>> THEN <<>>
    ELSE LET init == Unique(SubSeq(s, 1, Len(s) - 1))
             x == s[Len(s)]
         IN  IF \E i \in 1..Len(init) : init[i] = x THEN init ELSE Append(init, x)

\* isinstance(budget_data.columns, pd.MultiIndex)
IsMultiIndex(df) == df.levels = 2

\* The years the loop of sort_yearly_budgets iterates over
LoopYears(df) ==
    IF IsMultiIndex(df)
    THEN Unique([j \in 1..NCols(df) |-> df.cols[j][2]])
    ELSE [j \in 1..NCols(df) |-> df.cols[j][1]]

\* The slice of one year: budget_data.xs(key=year, axis=1, level=1,
\* drop_level=False), or budget_data[[year]]
YearData(df, year) ==
    SelectColumns(df,
        SelectSeq([j \in 1..NCols(df) |-> j],
                  LAMBDA j : df.cols[j][df.levels] = year))

\* The by= of the two sort_values calls of one year
SortBy(df, year) ==
    IF IsMultiIndex(df) THEN <<df.cols[1][1], year>> ELSE <<year>>

\* f"{year}_asc", f"{year}_desc"
AscKey(year) == Digits(year) \o <<"_", "a", "s", "c">>
DescKey(year) == Digits(year) \o <<"_", "d", "e", "s", "c">>

\* The years at which sort_values raises KeyError: by is no column of the slice
RaisingYears(df) ==
    SelectSeq(LoopYears(df),
              LAMBDA year : Locate(YearData(df, year), SortBy(df, year)) = {})

\* sorted_budgets with the entries k |-> v added
Put(m, k, v) == [x \in DOMAIN m \cup {k} |-> IF x = k THEN v ELSE m[x]]

\* The dictionaries the loop can have built after the years ys
RECURSIVE LoopOutcomes(_, _)
LoopOutcomes(df, ys) ==
    IF ys = <<>> THEN {<<>>}
    ELSE LET year == ys[Len(ys)]
             year_data == YearData(df, year)
         IN  {Put(Put(m, AscKey(year), a), DescKey(year), d) :
                 m \in LoopOutcomes(df, SubSeq(ys, 1, Len(ys) - 1)),
                 a \in SortValuesOutcomes(year_data, SortBy(df, year), TRUE),
                 d \in SortValuesOutcomes(year_data, SortBy(df, year), FALSE)}

\* BudgetDataFormatter.sort_yearly_budgets: the [exc, sorted_budgets] it can
\* end with
sort_yearly_budgets(df) ==
    IF RaisingYears(df) # <<>>
    THEN {[exc |-> KeyError(SortBy(df, Head(RaisingYears(df)))), sorted_budgets |-> <<>>]}
    ELSE {[exc |-> NoException, sorted_budgets |-> m] : m \in LoopOutcomes(df, LoopYears(df))}

(***************************************************************************)
(* Inputs.                                                                 *)
(***************************************************************************)
\* Every record of the dataset, in a fixed order
RecordTypes ==
    LET ts == SortLabels({<<m, g, y, a>> : m \in Ministries, g \in Groups,
                                            y \in Years, a \in Amounts})
    IN  [i \in 1..Len(ts) |->
            [OFFC_NM |-> ts[i][1], FLD_NM |-> ts[i][2], FSCL_YY |-> ts[i][3],
             Y_YY_MEDI_KCUR_AMT |-> ts[i][4]]]

\* The non-decreasing sequences of n indices of RecordTypes from lo on
RECURSIVE NonDecreasing(_, _)
NonDecreasing(n, lo) ==
    IF n = 0 THEN {<<>>}
    ELSE UNION {{<<k>> \o s : s \in NonDecreasing(n - 1, k)} : k \in lo..Len(RecordTypes)}

\* The datasets of at most MaxRecords records.  pivot_table sums over the
\* records of a group and sorts the group keys, so the order of the records
\* does not reach the table: one order stands for all.
Datasets ==
    UNION {{[i \in 1..n |-> RecordTypes[s[i]]] : s \in NonDecreasing(n, 1)} :
              n \in 0..MaxRecords}

\* The arguments of get_ministry_budget_trends: the field names of the
\* dataset, or a name it does not have
IndexArgs == {<<"OFFC_NM">>, <<"NO_SUCH_FIELD">>}
ColumnsArgs == {<<"FSCL_YY">>, <<"FLD_NM", "FSCL_YY">>, <<"NO_SUCH_FIELD">>,
                <<"FLD_NM", "NO_SUCH_FIELD">>}
ValuesArgs == {"Y_YY_MEDI_KCUR_AMT", "NO_SUCH_FIELD"}

\* The calls: at most one argument names a missing field, or all do
ArgSets ==
    {a \in [index : IndexArgs, columns : ColumnsArgs, values : ValuesArgs] :
        LET bad == {f \in {"index", "columns", "values"} :
                       \/ f = "values" /\ a.values \notin Schema
                       \/ f = "index" /\ \E i \in 1..Len(a.index) : a.index[i] \notin Schema
                       \/ f = "columns" /\ \E i \in 1..Len(a.columns) : a.columns[i] \notin Schema}
        IN  Cardinality(bad) <= 1 \/ (Cardinality(bad) = 3 /\ Len(a.columns) = 1)}

\* The cells of a frame handed directly to the static methods
DirectCells == {NaN, Num(0, 1), Num(1, 1), Num(2, 1)}

\* The columns of such a frame: of one level or of two, in chronological
\* order or not
FlatLayouts ==
    {<< <<2024>> >>, << <<2024>>, <<2025>> >>, << <<2025>>, <<2024>> >>,
     << <<2024>>, <<2025>>, <<2026>> >>}
TwoLevelLayouts ==
    {<< <<1, 2024>>, <<1, 2025>> >>, << <<1, 2024>>, <<2, 2025>> >>,
     << <<1, 2024>>, <<2, 2024>>, <<2, 2025>> >>}

DirectFramesOf(layouts, levels) ==
    UNION {UNION {{Frame([i \in 1..r |-> <<i>>], cols, levels, cells) :
                      cells \in [1..r -> [1..Len(cols) -> DirectCells]]} :
                  r \in {n \in 1..MaxRows : n * Len(cols) <= MaxCells}} :
           cols \in layouts}

(***************************************************************************)
(* The state machine: one call of get_ministry_budget_trends by the        *)
(* service, or the static methods of BudgetDataFormatter called on a frame *)
(* of the caller's.                                                        *)
(***************************************************************************)
VARIABLES
    pc,                       \* the position in the call
    caller,                   \* "service" or "static"
    data,                     \* self.ministry_aggregator.data
    args,                     \* [index, columns, values]
    budget_data_by_ministry,  \* the pivot table
    yoy,                      \* the result of calculate_yoy_change
    changes_yoy,              \* yoy mapped by format_percentage
    sorted_budgets,           \* the result of sort_yearly_budgets
    exc,                      \* the exception the call ended with
    result                    \* what get_ministry_budget_trends returned

vars == <<pc, caller, data, args, budget_data_by_ministry, yoy, changes_yoy,
          sorted_budgets, exc, result>>

NoArgs == [index |-> <<>>, columns |-> <<>>, values |-> ""]

NoResult ==
    [returned |-> FALSE, budget_by_ministry |-> NoFrame, changes_yoy |-> NoFrame,
     sorted_budgets |-> <<>>]

InitService ==
    /\ caller = "service"
    /\ pc = "start"
    /\ data \in Datasets
    /\ args \in ArgSets
    /\ budget_data_by_ministry = NoFrame

InitStatic ==
    /\ caller = "static"
    /\ pc = "aggregated"
    /\ data = <<>>
    /\ args = NoArgs
    /\ \/ budget_data_by_ministry \in DirectFramesOf(FlatLayouts, 1)
       \/ budget_data_by_ministry \in DirectFramesOf(TwoLevelLayouts, 2)

Init ==
    /\ InitService \/ InitStatic
    /\ yoy = NoFrame
    /\ changes_yoy = NoFrame
    /\ sorted_budgets = <<>>
    /\ exc = NoException
    /\ result = NoResult

\* self.ministry_aggregator.aggregate(index, columns, values)
Aggregate ==
    /\ pc = "start"
    /\ LET r == aggregate(data, args.index, args.columns, args.values)
       IN  /\ exc' = r.exc
           /\ budget_data_by_ministry' = r.df
           /\ pc' = IF r.exc = NoException THEN "aggregated" ELSE "raised"
    /\ UNCHANGED <<caller, data, args, yoy, changes_yoy, sorted_budgets, result>>

\* self.change_formatter.calculate_yoy_change(budget_data_by_ministry)
CalculateYoyChange ==
    /\ pc = "aggregated"
    /\ yoy' = calculate_yoy_change(budget_data_by_ministry)
    /\ pc' = "changed"
    /\ UNCHANGED <<caller, data, args, budget_data_by_ministry, changes_yoy,
                   sorted_budgets, exc, result>>

\* .map(self.change_formatter.format_percentage)
FormatChanges ==
    /\ pc = "changed"
    /\ changes_yoy' = MapFormat(yoy)
    /\ pc' = "formatted"
    /\ UNCHANGED <<caller, data, args, budget_data_by_ministry, yoy,
                   sorted_budgets, exc, result>>

\* self.change_formatter.sort_yearly_budgets(budget_data_by_ministry)
SortYearlyBudgets ==
    /\ pc = "formatted"
    /\ \E r \in sort_yearly_budgets(budget_data_by_ministry) :
          /\ exc' = r.exc
          /\ sorted_budgets' = r.sorted_budgets
          /\ pc' = IF r.exc = NoException THEN "sorted" ELSE "raised"
    /\ UNCHANGED <<caller, data, args, budget_data_by_ministry, yoy, changes_yoy,
                   result>>

\* The bundle get_ministry_budget_trends returns
Bundle(budget, changes, sorted) ==
    [returned |-> TRUE, budget_by_ministry |-> budget, changes_yoy |-> changes,
     sorted_budgets |-> sorted]

\* return {...}
Return ==
    /\ pc = "sorted"
    /\ caller = "service"
    /\ result' = Bundle(budget_data_by_ministry, changes_yoy, sorted_budgets)
    /\ pc' = "returned"
    /\ UNCHANGED <<caller, data, args, budget_data_by_ministry, yoy, changes_yoy,
                   sorted_budgets, exc>>

Next ==
    \/ Aggregate
    \/ CalculateYoyChange
    \/ FormatChanges
    \/ SortYearlyBudgets
    \/ Return

Spec == Init /\ [][Next]_vars

(***************************************************************************)
(* What the claims speak of.                                               *)
(***************************************************************************)
\* calculate_yoy_change has returned
YoyDone == yoy # NoFrame

\* .map(format_percentage) has returned
FormatDone == changes_yoy # NoFrame

\* sort_yearly_budgets was called, and has returned or raised
SortCalled ==
    \/ pc \in {"sorted", "returned"}
    \/ pc = "raised" /\ budget_data_by_ministry # NoFrame

\* sort_yearly_budgets has returned
SortDone == pc \in {"sorted", "returned"}

\* A cell without a value
Undefined(x) == x.k \in {"nan", "NA"}

Table == budget_data_by_ministry

\* The years among the column labels of the table
YearsPresent == {Table.cols[j][Len(Table.cols[j])] : j \in 1..NCols(Table)}

\* The column of the year-Y amounts a ranking of year Y is ordered by: the
\* year's column, in a table of two levels the one of the first outer label
AmountColumn(df, year) ==
    CHOOSE j \in 1..NCols(df) :
        df.cols[j] = (IF Table.levels = 2 THEN <<Table.cols[1][1], year>> ELSE <<year>>)

\* The year-Y amounts of the rows of a ranking, in its order
AmountsOf(df, year) == [i \in 1..NRows(df) |-> df.cells[i][AmountColumn(df, year)]]

\* The position in the table of the row labelled r
RowPosition(r) == CHOOSE i \in 1..NRows(Table) : Table.rows[i] = r

Defined(s) == SelectSeq(s, LAMBDA x : ~Undefined(x))

\* The rows of a ranking whose year-Y amount is defined, in its order
DefinedRows(df, year) ==
    LET keep == SelectSeq([i \in 1..NRows(df) |-> i],
                          LAMBDA i : ~Undefined(AmountsOf(df, year)[i]))
    IN  [i \in 1..Len(keep) |-> df.rows[keep[i]]]

\* The rows of the table whose year-Y amount is undefined, in table order
UndefinedRows(year) ==
    LET keep == SelectSeq([i \in 1..NRows(Table) |-> i],
                          LAMBDA i : Undefined(AmountsOf(Table, year)[i]))
    IN  [i \in 1..Len(keep) |-> Table.rows[keep[i]]]

Suffix(s, n) == SubSeq(s, Len(s) - n + 1, Len(s))

IsDigit(c) == \E i \in 0..9 : DigitChar(i) = c
DigitVal(c) == CHOOSE i \in 0..9 : DigitChar(i) = c

RECURSIVE IntOf(_)
IntOf(s) ==
    IF s = <<>> THEN 0
    ELSE 10 * IntOf(SubSeq(s, 1, Len(s) - 1)) + DigitVal(s[Len(s)])

\* s is digits, a point and two digits
IsTwoDecimals(s) ==
    /\ Len(s) >= 4
    /\ s[Len(s) - 2] = "."
    /\ \A i \in 1..Len(s) : i # Len(s) - 2 => IsDigit(s[i])

\* The number such an s writes, in hundredths
Hundredths(s) ==
    100 * IntOf(SubSeq(s, 1, Len(s) - 3)) + IntOf(Suffix(s, 2))

\* s writes the magnitude of the rational x to two decimals
WritesMagnitude(s, x) ==
    /\ IsTwoDecimals(s)
    /\ 2 * Abs(Hundredths(s) * x.d - 100 * Abs(x.n)) <= x.d

(***************************************************************************)
(* The claims.                                                             *)
(***************************************************************************)

\* C1: wherever the previous-year cell of a row is 0, the year-over-year
\* cell is undefined whatever the current-year value; it is no number and no
\* infinity, and calculate_yoy_change raises nothing.
C1_ZeroDenominatorUndefined ==
    YoyDone =>
        /\ pc = "changed" => exc = NoException
        /\ \A i \in 1..NRows(Table) : \A j \in 2..NCols(Table) :
              IsZero(Table.cells[i][j - 1]) => Undefined(yoy.cells[i][j])

\* C1 witness: a row with 0 and then a defined non-zero amount
C1_Witness ==
    /\ YoyDone
    /\ \E i \in 1..NRows(Table) : \E j \in 2..NCols(Table) :
          /\ IsZero(Table.cells[i][j - 1])
          /\ IsNum(Table.cells[i][j]) /\ ~IsZero(Table.cells[i][j])

\* C2: where a cell and the cell of the column just before it are defined
\* and the earlier one is not 0, the year-over-year cell is
\* (current - previous) / previous * 100; the columns keep their order.
C2_YoyValue ==
    YoyDone =>
        /\ yoy.cols = Table.cols
        /\ \A i \in 1..NRows(Table) : \A j \in 2..NCols(Table) :
              LET cur == Table.cells[i][j]
                  prev == Table.cells[i][j - 1]
                  y == yoy.cells[i][j]
              IN  (IsNum(cur) /\ IsNum(prev) /\ ~IsZero(prev)) =>
                      /\ IsNum(y)
                      /\ y.n * (cur.d * prev.n)
                           = (cur.n * prev.d - prev.n * cur.d) * 100 * y.d

\* C2 witness: a third column whose predecessor differs from the first
\* column, in a frame whose columns are not in chronological order or in one
\* with three years
C2_Witness ==
    /\ YoyDone
    /\ \E i \in 1..NRows(Table) : \E j \in 3..NCols(Table) :
          /\ IsNum(Table.cells[i][j]) /\ IsNum(Table.cells[i][j - 1])
          /\ IsNum(Table.cells[i][1])
          /\ ~IsZero(Table.cells[i][j - 1]) /\ ~IsZero(Table.cells[i][1])
          /\ Table.cells[i][1] # Table.cells[i][j - 1]
          /\ Table.cells[i][j] # Table.cells[i][j - 1]

\* C3: the year-over-year cell of the first column is undefined in every
\* row.
C3_FirstColumnUndefined ==
    (YoyDone /\ NCols(Table) >= 1) =>
        \A i \in 1..NRows(Table) : Undefined(yoy.cells[i][1])

\* C3 witness: a table of two rows whose first column holds a non-zero
\* amount and a zero
C3_Witness ==
    /\ YoyDone
    /\ NCols(Table) >= 2
    /\ \E i, k \in 1..NRows(Table) :
          /\ IsNum(Table.cells[i][1]) /\ ~IsZero(Table.cells[i][1])
          /\ IsZero(Table.cells[k][1])

\* C4: format_percentage raises nothing; it writes a positive number as "+",
\* the number to two decimals and "%", a negative number as "-", its
\* magnitude to two decimals and "%", and zero, nan and pd.NA as "NaN".
C4_FormatPercentage ==
    FormatDone =>
        /\ pc = "formatted" => exc = NoException
        /\ \A i \in 1..NRows(yoy) : \A j \in 1..NCols(yoy) :
              LET x == yoy.cells[i][j]
                  s == changes_yoy.cells[i][j]
              IN  /\ (IsNum(x) /\ x.n > 0) =>
                          /\ Len(s) >= 6 /\ s[1] = "+" /\ s[Len(s)] = "%"
                          /\ WritesMagnitude(SubSeq(s, 2, Len(s) - 1), x)
                  /\ (IsNum(x) /\ x.n < 0) =>
                          /\ Len(s) >= 6 /\ s[1] = "-" /\ s[Len(s)] = "%"
                          /\ WritesMagnitude(SubSeq(s, 2, Len(s) - 1), x)
                  /\ (IsZero(x) \/ Undefined(x)) => s = <<"N", "a", "N">>

\* C4 witness: one table of changes with a positive, a negative, a zero, a
\* nan and a pd.NA cell
C4_Witness ==
    /\ FormatDone
    /\ \E i \in 1..NRows(yoy) : \E j \in 1..NCols(yoy) :
          IsNum(yoy.cells[i][j]) /\ yoy.cells[i][j].n > 0
    /\ \E i \in 1..NRows(yoy) : \E j \in 1..NCols(yoy) :
          IsNum(yoy.cells[i][j]) /\ yoy.cells[i][j].n < 0
    /\ \E i \in 1..NRows(yoy) : \E j \in 1..NCols(yoy) : IsZero(yoy.cells[i][j])
    /\ \E i \in 1..NRows(yoy) : \E j \in 1..NCols(yoy) : yoy.cells[i][j] = NA
    /\ \E i \in 1..NRows(yoy) : \E j \in 1..NCols(yoy) : yoy.cells[i][j] = NaN

\* C5: once sort_yearly_budgets was called on a table, of one level or of
\* two, it has not failed and the dictionary holds "Y_asc" and "Y_desc" for
\* every year Y among the columns and no other key.
C5_RankingComplete ==
    SortCalled =>
        /\ exc = NoException
        /\ DOMAIN sorted_budgets
             = {AscKey(y) : y \in YearsPresent} \cup {DescKey(y) : y \in YearsPresent}

\* C6 as stated: the ministries of "Y_desc" are those of "Y_asc" in reverse
\* order, ties and undefined cells included.
C6_ExactReverse ==
    SortDone =>
        \A y \in YearsPresent :
            sorted_budgets[DescKey(y)].rows = Reverse(sorted_budgets[AscKey(y)].rows)

\* C6 amended: the defined year-Y amounts of "Y_desc" are those of "Y_asc" in
\* reverse order, and so are their ministries when these amounts differ
\* pairwise; the ministries whose year-Y amount is undefined come last in
\* both orderings, in the order of the table's rows.
C6_ReverseOfDefined ==
    SortDone =>
        \A y \in YearsPresent :
            LET asc == sorted_budgets[AscKey(y)]
                desc == sorted_budgets[DescKey(y)]
                amounts == Defined(AmountsOf(asc, y))
                nd == Len(amounts)
            IN  /\ Defined(AmountsOf(desc, y)) = Reverse(amounts)
                /\ SubSeq(AmountsOf(asc, y), 1, nd) = amounts
                /\ SubSeq(AmountsOf(desc, y), 1, nd) = Reverse(amounts)
                /\ SubSeq(asc.rows, nd + 1, NRows(asc)) = UndefinedRows(y)
                /\ SubSeq(desc.rows, nd + 1, NRows(desc)) = UndefinedRows(y)
                /\ (\A i, k \in 1..nd : amounts[i] = amounts[k] => i = k)
                      => DefinedRows(desc, y) = Reverse(DefinedRows(asc, y))

\* C6 witness: a year with three ministries, two of them with different
\* defined amounts and one with none
C6_Witness ==
    /\ SortDone
    /\ \E y \in YearsPresent :
          /\ Len(UndefinedRows(y)) = 1
          /\ Len(DefinedRows(sorted_budgets[AscKey(y)], y)) = 2
          /\ AmountsOf(sorted_budgets[AscKey(y)], y)[1]
               # AmountsOf(sorted_budgets[AscKey(y)], y)[2]

\* C7: "Y_asc" is in non-decreasing and "Y_desc" in non-increasing order of
\* the year-Y amount, and in both two ministries with equal amounts stand in
\* the order of their rows in the table.
C7_OrderedAndStable ==
    SortDone =>
        \A y \in YearsPresent :
            LET asc == sorted_budgets[AscKey(y)]
                desc == sorted_budgets[DescKey(y)]
                a == AmountsOf(asc, y)
                d == AmountsOf(desc, y)
            IN  /\ \A i, k \in 1..NRows(asc) :
                      (i < k /\ IsNum(a[i]) /\ IsNum(a[k])) =>
                          /\ ~Less(a[k], a[i])
                          /\ a[i] = a[k] => RowPosition(asc.rows[i]) < RowPosition(asc.rows[k])
                /\ \A i, k \in 1..NRows(desc) :
                      (i < k /\ IsNum(d[i]) /\ IsNum(d[k])) =>
                          /\ ~Less(d[i], d[k])
                          /\ d[i] = d[k] => RowPosition(desc.rows[i]) < RowPosition(desc.rows[k])

\* The records of the dataset with row key rk and column key ck
Matching(rk, ck) ==
    {n \in 1..Len(data) :
        /\ \A i \in 1..Len(args.index) : data[n][args.index[i]] = rk[i]
        /\ \A i \in 1..Len(args.columns) : data[n][args.columns[i]] = ck[i]}

\* The sum of the value field over a set of records of the dataset
RECURSIVE SumOver(_)
SumOver(S) ==
    IF S = {} THEN 0
    ELSE LET n == CHOOSE x \in S : TRUE
         IN  data[n][args.values] + SumOver(S \ {n})

\* The service's call names only fields of the dataset
ValidCall ==
    /\ caller = "service"
    /\ args.values \in Schema
    /\ \A i \in 1..Len(args.index) : args.index[i] \in Schema
    /\ \A i \in 1..Len(args.columns) : args.columns[i] \in Schema

\* The fields the service's call names that the dataset does not have
AbsentFields ==
    ({args.values} \cup {args.index[i] : i \in 1..Len(args.index)}
       \cup {args.columns[i] : i \in 1..Len(args.columns)}) \ Schema

NoDuplicates(s) == \A i, k \in 1..Len(s) : s[i] = s[k] => i = k

SetOf(s) == {s[i] : i \in 1..Len(s)}

\* C8: in the table aggregate returns, every ministry and every year (every
\* column key) of the dataset is a label exactly once, a cell is the sum of
\* the value field over the records of its ministry and year, and a cell
\* without a record is undefined, not zero.
C8_PivotSums ==
    (ValidCall /\ pc # "start") =>
        /\ NoDuplicates(Table.rows) /\ NoDuplicates(Table.cols)
        /\ SetOf(Table.rows)
             = {[i \in 1..Len(args.index) |-> data[n][args.index[i]]] : n \in 1..Len(data)}
        /\ SetOf(Table.cols)
             = {[i \in 1..Len(args.columns) |-> data[n][args.columns[i]]] : n \in 1..Len(data)}
        /\ \A i \in 1..NRows(Table) : \A j \in 1..NCols(Table) :
              LET recs == Matching(Table.rows[i], Table.cols[j])
              IN  IF recs = {} THEN Table.cells[i][j] = NaN
                  ELSE Table.cells[i][j] = Num(SumOver(recs), 1)

\* C8 witness: a table with a cell that sums two records, a cell that sums
\* to zero and a cell without a record
C8_Witness ==
    /\ ValidCall /\ pc = "aggregated"
    /\ \E i \in 1..NRows(Table) : \E j \in 1..NCols(Table) :
          /\ Cardinality(Matching(Table.rows[i], Table.cols[j])) = 2
          /\ Table.cells[i][j] = Num(3, 1)
    /\ \E i \in 1..NRows(Table) : \E j \in 1..NCols(Table) : Table.cells[i][j] = NaN
    /\ \E i \in 1..NRows(Table) : \E j \in 1..NCols(Table) : IsZero(Table.cells[i][j])

C10_BundleShape ==
    result.returned =>
        LET budget == result.budget_by_ministry
        IN  /\ SetOf(result.changes_yoy.rows) = SetOf(budget.rows)
            /\ NRows(result.changes_yoy) = NRows(budget)
            /\ NCols(result.changes_yoy) = NCols(budget)
            /\ \A i \in 1..NRows(budget) :
                  Len(result.changes_yoy.cells[i]) = NCols(budget)
            /\ \A key \in DOMAIN result.sorted_budgets :
                  /\ SetOf(result.sorted_budgets[key].rows) = SetOf(budget.rows)
                  /\ NRows(result.sorted_budgets[key]) = NRows(budget)
                  /\ NoDuplicates(result.sorted_budgets[key].rows)

\* C10 witness: a returned bundle of two ministries and two years with an
\* undefined cell
C10_Witness ==
    /\ result.returned
    /\ NRows(result.budget_by_ministry) = 2
    /\ NCols(result.budget_by_ministry) = 2
    /\ result.budget_by_ministry.levels = 1
    /\ \E i \in 1..2 : \E j \in 1..2 : result.budget_by_ministry.cells[i][j] = NaN
    /\ Cardinality(DOMAIN result.sorted_budgets) = 4

=============================================================================
